---- MODULE Spec2Model ----
(***************************************************************************)
(* A model of the neuronav recording library: the DepthAISensor adapter    *)
(* (hardware / webcam / synthetic capture), the MockSensor test double,    *)
(* the GetDepthai factory and NeuronavClient.record().                      *)
(*                                                                         *)
(* A sensor method is an operator from a context to a context.  A context  *)
(* holds the object (self), the heap of OS-level handles the object has    *)
(* ever opened, and the outcome of the call: the external calls it made    *)
(* (ev), the exception that left it (exc) and its return value (ret).      *)
(* Everything the environment decides (is a package importable, does a     *)
(* device open, does a release throw) is an argument of the operator.      *)
(***************************************************************************)
EXTENDS Integers, Sequences, FiniteSets, TLC

\* ---------------------------------------------------------------- bounds
MaxLeaks == 2          \* handles the model lets an object leak
MaxTime == 1           \* clock ticks the model lets pass
TicksPerSecond == 1    \* clock ticks in one wall-clock second
MaxFrameTicks == 12    \* clock ticks the synthetic-frame model lets pass
FrameTicksPerSecond == 3   \* its clock ticks in one wall-clock second

\* ------------------------------------------------------- program constants
None == 0              \* a field that holds no handle (handle ids start at 1)
DefaultWidth == 1280
DefaultHeight == 720
DefaultFps == 30
NoDuration == -1       \* duration_seconds=None
BarWidth == 40         \* the columns x:x+40 of the synthetic frame

NoException == "none"

\* The values given as mock_source: Python ints, and strings.
MockSources ==
    { [type |-> "int", val |-> "0"], [type |-> "str", val |-> "synthetic"] }

\* The model identifiers, as sequences of characters.
ModelNames == { <<"o", "a", "k", "-", "d">> }

\* isinstance(x, int)
IsInt(x) == x.type = "int"

NoPath == [ts |-> -1, name |-> <<>>, mode |-> ""]

\* The object before construction (and after a constructor that raised).
NoObject ==
    [ kind |-> "none", name |-> <<>>, pipeline |-> "None", device |-> None,
      rgb_queue |-> None, video_writer |-> None, running |-> FALSE,
      fps |-> DefaultFps, width |-> DefaultWidth, height |-> DefaultHeight,
      allow_mock_on_no_device |-> FALSE,
      mock_source |-> [type |-> "int", val |-> "0"],
      mode |-> "depthai", cap |-> None, current_filepath |-> NoPath,
      has_depthai |-> FALSE, source |-> "None" ]

\* One external call made by a method: what was called, on which handle,
\* and (for a sink) the mode tag of its path and the size of a frame.
Ev(e, h, tag, w, ht) == [e |-> e, h |-> h, tag |-> tag, w |-> w, ht |-> ht]

Raise(c, e) == [c EXCEPT !.exc = e]
Log(c, e) == [c EXCEPT !.ev = Append(c.ev, e)]

\* The heap holds the handles the object refers to, by handle id (an index):
\* the kind of each, whether the resource behind it is open, and whether
\* release()/close() was ever called on it.
NewId(c) == Len(c.heap) + 1

\* A new handle.
Alloc(c, kind, open) ==
    [c EXCEPT !.heap = Append(c.heap, [kind |-> kind, open |-> open, rel |-> FALSE])]

\* release()/close() on handle h closes the resource unless it throws.
Release(c, h, ok) ==
    [c EXCEPT !.heap[h].rel = TRUE,
              !.heap[h].open = IF ok THEN FALSE ELSE @]

\* The tag of a release event: "again" when the handle was released before.
ReleaseTag(c, h) == IF c.heap[h].rel THEN "again" ELSE "first"

\* The handles the object refers to, each once, in the order of its fields.
Referenced(obj) ==
    LET add(seq, h) ==
            IF h = None \/ (\E i \in 1..Len(seq) : seq[i] = h) THEN seq
            ELSE Append(seq, h)
    IN  add(add(add(add(<<>>, obj.video_writer), obj.cap), obj.device),
            obj.rgb_queue)

\* refs[i] = h for some i
Among(refs, h) == \E i \in 1..Len(refs) : refs[i] = h

\* The handles of a heap that are open and that the object (whose handles
\* are refs) does not refer to any more: nothing can release them.
Lost(heap, refs) == { h \in 1..Len(heap) : heap[h].open /\ ~Among(refs, h) }

\* The id of handle h once the heap keeps only the referenced handles.
Renamed(refs, h) ==
    IF Among(refs, h) THEN CHOOSE i \in 1..Len(refs) : refs[i] = h ELSE None

\* The heap and the object after a call: handles the object dropped are
\* forgotten (the open ones are counted as leaked) and the others renamed.
Kept(heap, refs) == [i \in 1..Len(refs) |-> heap[refs[i]]]

Rebound(obj, refs) ==
    [obj EXCEPT !.video_writer = Renamed(refs, @), !.cap = Renamed(refs, @),
                !.device = Renamed(refs, @), !.rgb_queue = Renamed(refs, @)]

\* ------------------------------------------------------------ DepthAISensor

\* Mutant: the two branches of the fallback rule exchanged.
FallbackMode_inverted(src) == IF IsInt(src) THEN "synthetic" ELSE "webcam"

\* "webcam" if isinstance(self.mock_source, int) else "synthetic"
FallbackMode(src) == IF IsInt(src) THEN "webcam" ELSE "synthetic"

\* Mutant: the constructor does not look at allow_mock_on_no_device.
DepthAISensor_init_unchecked(c, model, allow, src, cv2, headless, depthai) ==
    LET obj == [NoObject EXCEPT
                  !.kind = "depthai", !.name = model,
                  !.allow_mock_on_no_device = allow, !.mock_source = src,
                  !.has_depthai = depthai]
    IN  IF ~cv2 /\ ~headless THEN Raise(c, "RuntimeError")
        ELSE IF depthai THEN [c EXCEPT !.self = obj]
        ELSE [c EXCEPT !.self = [obj EXCEPT !.mode = FallbackMode(src)]]

\* DepthAISensor.__init__.  cv2, headless and depthai are what
\* ensure_package() answers for opencv-python, opencv-python-headless and
\* depthai.  A constructor that raises leaves no object.
DepthAISensor_init(c, model, allow, src, cv2, headless, depthai) ==
    LET obj == [NoObject EXCEPT
                  !.kind = "depthai", !.name = model,
                  !.allow_mock_on_no_device = allow, !.mock_source = src,
                  !.has_depthai = depthai]
    IN  IF ~cv2 /\ ~headless THEN Raise(c, "RuntimeError")
        ELSE IF depthai THEN [c EXCEPT !.self = obj]
        ELSE IF ~allow THEN Raise(c, "RuntimeError")
        ELSE [c EXCEPT !.self = [obj EXCEPT !.mode = FallbackMode(src)]]

\* DepthAISensor._set_mode_based_on_devices.  enum is what
\* Device.getAllAvailableDevices() does: "devices", "empty" or "throws".
\* The RuntimeError raised for "empty" is raised inside the try block, so the
\* handler below it sees it too, and re-raises it when mocking is disabled.
DepthAISensor_set_mode_based_on_devices(c, enum) ==
    LET c1 == Log(c, Ev("getAllAvailableDevices", None, enum, 0, 0))
    IN  IF ~c.self.has_depthai THEN c
        ELSE IF enum = "devices" THEN [c1 EXCEPT !.self.mode = "depthai"]
        ELSE IF c.self.allow_mock_on_no_device
             THEN [c1 EXCEPT !.self.mode = FallbackMode(c.self.mock_source)]
        ELSE Raise(c1, IF enum = "empty" THEN "RuntimeError" ELSE "DeviceError")

\* DepthAISensor.initialize
DepthAISensor_initialize(c, enum) ==
    LET c1 == DepthAISensor_set_mode_based_on_devices(
                  [c EXCEPT !.inited = TRUE], enum)
    IN  IF c1.exc # NoException THEN c1
        ELSE IF c1.self.mode = "depthai"
             THEN [c1 EXCEPT !.self.pipeline = "pipeline"]
        ELSE [c1 EXCEPT !.self.pipeline = "None"]

\* name.replace('-', '_')
RECURSIVE ReplaceDash(_)
ReplaceDash(name) ==
    IF name = <<>> THEN <<>>
    ELSE <<IF Head(name) = "-" THEN "_" ELSE Head(name)>> \o ReplaceDash(Tail(name))

\* datetime.now().strftime("%Y%m%d_%H%M%S"): the clock cut to whole seconds
Timestamp(now) == now \div TicksPerSecond

\* Mutant: a writer that is still held is released before the new one is made.
DepthAISensor_open_writer_releasing(c, now, sinkOk) ==
    LET old == c.self.video_writer
        c0 == IF old = None THEN c
              ELSE Log(Release(c, old, TRUE),
                       Ev("sink_release", old, ReleaseTag(c, old), 0, 0))
        path == [ts |-> Timestamp(now), name |-> ReplaceDash(c.self.name),
                 mode |-> c.self.mode]
        id == NewId(c0)
        c1 == Log(Alloc(c0, "sink", sinkOk),
                  Ev("sink_open", id, c.self.mode, c.self.width, c.self.height))
        c2 == [c1 EXCEPT !.self.video_writer = id]
    IN  IF ~sinkOk THEN Raise(c2, "RuntimeError")
        ELSE [c2 EXCEPT !.self.current_filepath = path]

\* DepthAISensor._open_writer.  The VideoWriter is constructed and assigned
\* to self._video_writer before isOpened() is asked; a writer that opened
\* has created its file.
DepthAISensor_open_writer(c, now, sinkOk) ==
    LET path == [ts |-> Timestamp(now), name |-> ReplaceDash(c.self.name),
                 mode |-> c.self.mode]
        id == NewId(c)
        c1 == Log(Alloc(c, "sink", sinkOk),
                  Ev("sink_open", id, c.self.mode, c.self.width, c.self.height))
        c2 == [c1 EXCEPT !.self.video_writer = id]
    IN  IF ~sinkOk THEN Raise(c2, "RuntimeError")
        ELSE [c2 EXCEPT !.self.current_filepath = path]

\* Mutant: a failed device open falls back even when mocking is disabled.
DepthAISensor_start_device_swallow(c, devOk) ==
    IF c.self.mode # "depthai" THEN c
    ELSE IF devOk
         THEN [Log(Alloc(c, "device", TRUE),
                   Ev("device_open", NewId(c), "ok", 0, 0))
                 EXCEPT !.self.device = NewId(c)]
    ELSE [Log(c, Ev("device_open", None, "failed", 0, 0))
            EXCEPT !.self.mode = FallbackMode(c.self.mock_source)]

\* Mutant: a start() in a fallback mode tries the hardware again and goes
\* back to hardware mode when the device opens.
DepthAISensor_start_device_retry(c, devOk) ==
    IF ~c.self.has_depthai THEN c
    ELSE IF devOk
         THEN [Log(Alloc(c, "device", TRUE),
                   Ev("device_open", NewId(c), "ok", 0, 0))
                 EXCEPT !.self.device = NewId(c), !.self.mode = "depthai"]
    ELSE LET f == Log(c, Ev("device_open", None, "failed", 0, 0))
         IN  IF c.self.allow_mock_on_no_device
             THEN [f EXCEPT !.self.mode = FallbackMode(c.self.mock_source)]
             ELSE Raise(f, "DeviceError")

\* The first block of DepthAISensor.start: in hardware mode, try
\* dai.Device(self._pipeline) once; when it throws, fall back if mocking is
\* allowed and re-raise if not.
DepthAISensor_start_device(c, devOk) ==
    IF c.self.mode # "depthai" THEN c
    ELSE IF devOk
         THEN [Log(Alloc(c, "device", TRUE),
                   Ev("device_open", NewId(c), "ok", 0, 0))
                 EXCEPT !.self.device = NewId(c)]
    ELSE LET f == Log(c, Ev("device_open", None, "failed", 0, 0))
         IN  IF c.self.allow_mock_on_no_device
             THEN [f EXCEPT !.self.mode = FallbackMode(c.self.mock_source)]
             ELSE Raise(f, "DeviceError")

\* DepthAISensor.start.  devOk: dai.Device(pipeline) opens; queueOk:
\* getOutputQueue() returns; capOk: the VideoCapture isOpened(); sinkOk: the
\* VideoWriter isOpened().
DepthAISensor_start(c, now, devOk, queueOk, capOk, sinkOk) ==
    LET c1 == DepthAISensor_start_device([c EXCEPT !.stopped = FALSE], devOk)
        running(x) == IF x.exc # NoException THEN x
                      ELSE [x EXCEPT !.self.running = TRUE]
    IN  IF c1.exc # NoException THEN c1
        ELSE IF c1.self.mode = "depthai" THEN
            IF ~queueOk THEN Raise(c1, "DeviceError")
            ELSE running(DepthAISensor_open_writer(
                     [c1 EXCEPT !.self.rgb_queue = c1.self.device], now, sinkOk))
        ELSE IF c1.self.mode = "webcam" THEN
            LET id == NewId(c1)
                c2 == [Log(Alloc(c1, "cap", capOk),
                           Ev("cap_open", id, "", 0, 0))
                         EXCEPT !.self.cap = id]
            IN  IF ~capOk THEN Raise(c2, "RuntimeError")
                ELSE running(DepthAISensor_open_writer(c2, now, sinkOk))
        ELSE IF c1.self.mode = "synthetic" THEN
            running(DepthAISensor_open_writer(c1, now, sinkOk))
        ELSE c1

\* writer.write(frame) on self._video_writer: an AttributeError when the field
\* is None, and otherwise one frame of w x ht handed to the sink.
WriteFrame(c, w, ht) ==
    IF c.self.video_writer = None THEN Raise(c, "AttributeError")
    ELSE [Log(c, Ev("sink_write", c.self.video_writer, c.self.mode, w, ht))
            EXCEPT !.ret = "True"]

\* Mutant: the bar position taken from tenths of a second.
BarStart_tenths(t, W) == ((10 * t[1]) % (W * t[2])) \div t[2]

\* x = int((t*100) % self._width), for the time t = t[1]/t[2] seconds: the
\* remainder of 100*t by the width, as a real number, cut to an integer.
BarStart(t, W) == ((100 * t[1]) % (W * t[2])) \div t[2]

\* frame[:, x:x+40, :] = 255 on a frame of W columns: the slice stops at the
\* last column.  The number of columns painted.
BarColumns(x, W) == (IF x + BarWidth < W THEN x + BarWidth ELSE W) - x

\* The synthetic frame of read(): where its bar starts and how wide it is.
DrawBar(c, t) ==
    LET x == BarStart(t, c.self.width)
    IN  Log(c, [e |-> "draw_bar", h |-> None, x |-> x,
                cols |-> BarColumns(x, c.self.width)])

\* Mutant: a webcam frame is written as it came, whatever its size.
DepthAISensor_read_no_resize(c, t, pkt, ok, fw, fh) ==
    IF ~c.self.running THEN [c EXCEPT !.ret = "False"]
    ELSE IF c.self.mode = "depthai" THEN
        LET q == c.self.rgb_queue
            got == IF pkt = "frame" /\ ~c.heap[q].open THEN "throws" ELSE pkt
        IN  IF q = None THEN Raise(c, "AttributeError")
            ELSE LET c1 == Log(c, Ev("queue_tryGet", q, "", 0, 0))
                 IN  IF got = "throws" THEN Raise(c1, "DeviceError")
                     ELSE IF got = "none" THEN [c1 EXCEPT !.ret = "False"]
                     ELSE WriteFrame(c1, c.self.width, c.self.height)
    ELSE IF c.self.mode = "webcam" THEN
        IF c.self.cap = None THEN Raise(c, "AttributeError")
        ELSE LET c1 == Log(c, Ev("cap_read", c.self.cap, "", 0, 0))
             IN  IF ~ok \/ ~c.heap[c.self.cap].open
                 THEN [c1 EXCEPT !.ret = "False"]
                 ELSE WriteFrame(c1, fw, fh)
    ELSE IF c.self.mode = "synthetic" THEN
        WriteFrame(DrawBar(c, t), c.self.width, c.self.height)
    ELSE [c EXCEPT !.ret = "False"]

\* DepthAISensor.read.  pkt is what tryGet() does ("none", "frame",
\* "throws"; a queue whose device was closed gives no frame), ok and the
\* frame size fw x fh are what the webcam's read() returns, t is what
\* time.time() returns, as the fraction t[1]/t[2] of a second.  A hardware
\* frame has the video size initialize() set on the pipeline, which is
\* self._width x self._height.
DepthAISensor_read(c, t, pkt, ok, fw, fh) ==
    IF ~c.self.running THEN [c EXCEPT !.ret = "False"]
    ELSE IF c.self.mode = "depthai" THEN
        LET q == c.self.rgb_queue
            got == IF pkt = "frame" /\ ~c.heap[q].open THEN "throws" ELSE pkt
        IN  IF q = None THEN Raise(c, "AttributeError")
            ELSE LET c1 == Log(c, Ev("queue_tryGet", q, "", 0, 0))
                 IN  IF got = "throws" THEN Raise(c1, "DeviceError")
                     ELSE IF got = "none" THEN [c1 EXCEPT !.ret = "False"]
                     ELSE WriteFrame(c1, c.self.width, c.self.height)
    ELSE IF c.self.mode = "webcam" THEN
        IF c.self.cap = None THEN Raise(c, "AttributeError")
        ELSE LET c1 == Log(c, Ev("cap_read", c.self.cap, "", 0, 0))
                 mismatch == fw # c.self.width \/ fh # c.self.height
             IN  IF ~ok \/ ~c.heap[c.self.cap].open
                 THEN [c1 EXCEPT !.ret = "False"]
                 ELSE IF mismatch
                      THEN WriteFrame(Log(c1, Ev("resize", None, "", fw, fh)),
                                      c.self.width, c.self.height)
                 ELSE WriteFrame(c1, fw, fh)
    ELSE IF c.self.mode = "synthetic" THEN
        WriteFrame(DrawBar(c, t), c.self.width, c.self.height)
    ELSE [c EXCEPT !.ret = "False"]

\* Mutant: stop() leaves the running flag as it is.
DepthAISensor_stop_keeps_running(c) == [c EXCEPT !.stopped = TRUE]

\* DepthAISensor.stop
DepthAISensor_stop(c) == [c EXCEPT !.self.running = FALSE, !.stopped = TRUE]

\* Mutant: cleanup() closes the device before it releases the sink and the
\* webcam handle.
DepthAISensor_cleanup_device_first(c, fail) ==
    LET d == c.self.device
        c0 == IF d = None THEN c
              ELSE [Log(Release(c, d, fail # "device"),
                        Ev("device_close", d, ReleaseTag(c, d), 0, 0))
                      EXCEPT !.self.device = None]
        w == c0.self.video_writer
        c1 == IF w = None THEN c0
              ELSE LET r == Log(Release(c0, w, fail # "sink"),
                                Ev("sink_release", w, ReleaseTag(c0, w), 0, 0))
                   IN  IF fail = "sink" THEN Raise(r, "cv2.error")
                       ELSE [r EXCEPT !.self.video_writer = None]
        k == c1.self.cap
    IN  IF c1.exc # NoException \/ k = None THEN c1
        ELSE LET r == Log(Release(c1, k, fail # "cap"),
                          Ev("cap_release", k, ReleaseTag(c1, k), 0, 0))
             IN  IF fail = "cap" THEN Raise(r, "cv2.error")
                 ELSE [r EXCEPT !.self.cap = None]

\* DepthAISensor.cleanup.  fail names the release step that throws, if any:
\* "sink", "cap", "device" or "none".  Only the device close is in a try.
DepthAISensor_cleanup(c, fail) ==
    LET w == c.self.video_writer
        c1 == IF w = None THEN c
              ELSE LET r == Log(Release(c, w, fail # "sink"),
                                Ev("sink_release", w, ReleaseTag(c, w), 0, 0))
                   IN  IF fail = "sink" THEN Raise(r, "cv2.error")
                       ELSE [r EXCEPT !.self.video_writer = None]
        k == c1.self.cap
        c2 == IF c1.exc # NoException \/ k = None THEN c1
              ELSE LET r == Log(Release(c1, k, fail # "cap"),
                                Ev("cap_release", k, ReleaseTag(c1, k), 0, 0))
                   IN  IF fail = "cap" THEN Raise(r, "cv2.error")
                       ELSE [r EXCEPT !.self.cap = None]
        d == c2.self.device
    IN  IF c2.exc # NoException \/ d = None THEN c2
        ELSE [Log(Release(c2, d, fail # "device"),
                  Ev("device_close", d, ReleaseTag(c2, d), 0, 0))
                EXCEPT !.self.device = None]

\* --------------------------------------------------------------- MockSensor

MockName == <<"m", "o", "c", "k">>

\* MockSensor.__init__.  source is a path or "None".
MockSensor_init(c, source, cv2) ==
    IF ~cv2 THEN Raise(c, "RuntimeError")
    ELSE [c EXCEPT !.self = [NoObject EXCEPT !.kind = "mock", !.name = MockName,
                                             !.source = source, !.mode = "mock"]]

\* MockSensor.initialize
MockSensor_initialize(c, capOk) ==
    LET c0 == [c EXCEPT !.inited = TRUE]
        id == NewId(c0)
    IN  IF c0.self.source = "None" THEN c0
        ELSE LET c1 == [Log(Alloc(c0, "cap", capOk),
                            Ev("cap_open", id, "", 0, 0))
                          EXCEPT !.self.cap = id]
             IN  IF capOk THEN c1 ELSE Raise(c1, "RuntimeError")

\* MockSensor.start
MockSensor_start(c, now, sinkOk) ==
    LET path == [ts |-> Timestamp(now), name |-> c.self.name, mode |-> ""]
        id == NewId(c)
        c1 == [Log(Alloc(c, "sink", sinkOk),
                   Ev("sink_open", id, "", c.self.width, c.self.height))
                 EXCEPT !.self.current_filepath = path,
                        !.self.video_writer = id,
                        !.stopped = FALSE]
    IN  IF ~sinkOk THEN Raise(c1, "RuntimeError")
        ELSE [c1 EXCEPT !.self.running = TRUE]

\* MockSensor._next_frame: "frame" or "None".  ok1 and ok2 are the two
\* cap.read() calls (the second after rewinding the video).
MockSensor_next_frame(c, ok1, ok2) ==
    IF c.self.cap # None
    THEN IF ok1 \/ ok2 THEN "frame" ELSE "None"
    ELSE "frame"

\* MockSensor.read
MockSensor_read(c, ok1, ok2) ==
    IF ~c.self.running THEN [c EXCEPT !.ret = "False"]
    ELSE LET c1 == IF c.self.cap # None
                   THEN Log(c, Ev("cap_read", c.self.cap, "", 0, 0))
                   ELSE c
         IN  IF MockSensor_next_frame(c, ok1, ok2) = "None"
             THEN [c1 EXCEPT !.ret = "False"]
             ELSE WriteFrame(c1, c.self.width, c.self.height)

\* MockSensor.stop
MockSensor_stop(c) == [c EXCEPT !.self.running = FALSE, !.stopped = TRUE]

\* MockSensor.cleanup: no release step is in a try.
MockSensor_cleanup(c, fail) ==
    LET w == c.self.video_writer
        c1 == IF w = None THEN c
              ELSE LET r == Log(Release(c, w, fail # "sink"),
                                Ev("sink_release", w, ReleaseTag(c, w), 0, 0))
                   IN  IF fail = "sink" THEN Raise(r, "cv2.error")
                       ELSE [r EXCEPT !.self.video_writer = None]
        k == c1.self.cap
    IN  IF c1.exc # NoException \/ k = None THEN c1
        ELSE LET r == Log(Release(c1, k, fail # "cap"),
                          Ev("cap_release", k, ReleaseTag(c1, k), 0, 0))
             IN  IF fail = "cap" THEN Raise(r, "cv2.error")
                 ELSE [r EXCEPT !.self.cap = None]

\* ------------------------------------------------------------------- state

VARIABLES
    args,         \* the arguments the sensor was constructed with
    self,         \* the sensor object (NoObject when there is none)
    heap,         \* the handles the object refers to, by handle id
    leaks,        \* how many handles were leaked so far
    call,         \* the last call made on the sensor and its outcome
    now,          \* the wall clock, in ticks
    initialized,  \* initialize() has been called on the object
    stopped,      \* stop() has been called and start() not since
    rec           \* NeuronavClient.record(): its position and locals

vars == <<args, self, heap, leaks, call, now, initialized, stopped, rec>>

NoCall == [op |-> "none", ev |-> <<>>, exc |-> NoException, ret |-> "None"]

NoArgs == [allow |-> TRUE, src |-> [type |-> "int", val |-> "0"],
           depthai |-> FALSE, factory |-> FALSE, given |-> FALSE]

RecIdle == [pc |-> "idle", duration |-> NoDuration, start |-> 0,
            exc |-> NoException, calls |-> <<>>, exit |-> "none"]

\* The context a call on the sensor starts from.
Ctx ==
    [self |-> self, heap |-> heap, ev |-> <<>>, exc |-> NoException,
     ret |-> "None", inited |-> initialized, stopped |-> stopped]

\* The state after a call op on the sensor that ended in context r.
Commit(op, r) ==
    LET refs == Referenced(r.self)
    IN  /\ self' = Rebound(r.self, refs)
        /\ heap' = Kept(r.heap, refs)
        /\ leaks' = leaks + Cardinality(Lost(r.heap, refs))
        /\ call' = [op |-> op,
                    ev |-> [i \in 1..Len(r.ev) |->
                              [r.ev[i] EXCEPT !.h = Renamed(refs, @)]],
                    exc |-> r.exc, ret |-> r.ret]
        /\ initialized' = r.inited
        /\ stopped' = r.stopped

\* Method dispatch on the class of the sensor.
Sensor_initialize(c, enum, capOk) ==
    IF c.self.kind = "mock" THEN MockSensor_initialize(c, capOk)
    ELSE DepthAISensor_initialize(c, enum)

Sensor_start(c, t, devOk, queueOk, capOk, sinkOk) ==
    IF c.self.kind = "mock" THEN MockSensor_start(c, t, sinkOk)
    ELSE DepthAISensor_start(c, t, devOk, queueOk, capOk, sinkOk)

Sensor_read(c, t, pkt, ok, ok2, fw, fh) ==
    IF c.self.kind = "mock" THEN MockSensor_read(c, ok, ok2)
    ELSE DepthAISensor_read(c, t, pkt, ok, fw, fh)

Sensor_stop(c) ==
    IF c.self.kind = "mock" THEN MockSensor_stop(c) ELSE DepthAISensor_stop(c)

Sensor_cleanup(c, fail) ==
    IF c.self.kind = "mock" THEN MockSensor_cleanup(c, fail)
    ELSE DepthAISensor_cleanup(c, fail)

\* Mutant: the factory returns the sensor without initializing it.
GetDepthai_without_initialize(c, model, allow, src, cv2, headless, depthai, enum) ==
    DepthAISensor_init(c, model, allow, src, cv2, headless, depthai)

\* GetDepthai: construct, initialize, return the sensor.  When either
\* raises, the caller gets no sensor.
GetDepthai(c, model, allow, src, cv2, headless, depthai, enum) ==
    LET c1 == DepthAISensor_init(c, model, allow, src, cv2, headless, depthai)
        c2 == IF c1.exc # NoException THEN c1
              ELSE DepthAISensor_initialize(c1, enum)
    IN  IF c2.exc # NoException THEN [c2 EXCEPT !.self = NoObject] ELSE c2

\* What the environment may do to the release steps of one cleanup() call:
\* nothing, or make one step on a held handle throw.
Failures ==
    {"none"} \cup
    { f \in {"sink", "cap", "device"} :
        /\ \/ f = "sink" /\ self.video_writer # None
           \/ f = "cap" /\ self.cap # None
           \/ f = "device" /\ self.device # None /\ self.kind = "depthai" }

FrameSizes == { <<DefaultWidth, DefaultHeight>>, <<640, 480>> }

\* The environment's answers a call can depend on; an answer the call never
\* asks for is fixed, so that each outcome is generated once.
Asked(b) == IF b THEN BOOLEAN ELSE {TRUE}
IsDepthai == self.kind = "depthai" /\ self.mode = "depthai"
IsWebcam == self.kind = "depthai" /\ self.mode = "webcam"
DevAnswers == Asked(IsDepthai)
CapAnswers == Asked(IsWebcam \/ (IsDepthai /\ IsInt(self.mock_source)))
PktAnswers == IF IsDepthai /\ self.running THEN {"none", "frame", "throws"} ELSE {"none"}
ReadAnswers == Asked(self.running /\ (IsWebcam \/ (self.kind = "mock" /\ self.cap # None)))
SizeAnswers == IF IsWebcam /\ self.running THEN FrameSizes
               ELSE { <<DefaultWidth, DefaultHeight>> }
EnumAnswers == IF self.kind = "depthai" /\ self.has_depthai
               THEN {"devices", "empty", "throws"} ELSE {"devices"}

Init ==
    /\ args = NoArgs
    /\ self = NoObject
    /\ heap = <<>>
    /\ leaks = 0
    /\ call = NoCall
    /\ now = 0
    /\ initialized = FALSE
    /\ stopped = FALSE
    /\ rec = RecIdle

\* The model follows a call only while the leaks stay within their bound.
Fits(r) == leaks + Cardinality(Lost(r.heap, Referenced(r.self))) <= MaxLeaks

Unbuilt == self.kind = "none" /\ ~args.given
Idle == self.kind # "none" /\ rec.pc = "idle"

\* sensor = DepthAISensor(model, allow_mock_on_no_device=..., mock_source=...)
Construct ==
    /\ Unbuilt
    /\ \E model \in ModelNames, allow \in BOOLEAN, src \in MockSources,
          cv2, headless, depthai \in BOOLEAN :
          /\ Commit("__init__", DepthAISensor_init(Ctx, model, allow, src,
                        cv2, headless, depthai))
          /\ args' = [allow |-> allow, src |-> src, depthai |-> depthai,
                      factory |-> FALSE, given |-> TRUE]
    /\ UNCHANGED <<now, rec>>

\* sensor = GetDepthai(model, allow_mock_on_no_device=..., mock_source=...)
Factory ==
    /\ Unbuilt
    /\ \E model \in ModelNames, allow \in BOOLEAN, src \in MockSources,
          cv2, headless, depthai \in BOOLEAN,
          enum \in {"devices", "empty", "throws"} :
          /\ Commit("GetDepthai", GetDepthai(Ctx, model, allow, src,
                        cv2, headless, depthai, enum))
          /\ args' = [allow |-> allow, src |-> src, depthai |-> depthai,
                      factory |-> TRUE, given |-> TRUE]
    /\ UNCHANGED <<now, rec>>

\* sensor = MockSensor(source)
ConstructMock ==
    /\ Unbuilt
    /\ \E source \in {"None", "file.mp4"}, cv2 \in BOOLEAN :
          Commit("__init__", MockSensor_init(Ctx, source, cv2))
    /\ args' = [NoArgs EXCEPT !.given = TRUE]
    /\ UNCHANGED <<now, rec>>

\* sensor.initialize(), between sessions: the caller does not re-initialize
\* a sensor that is recording or that still holds a sink or a capture.
Initialize ==
    /\ Idle
    /\ ~self.running /\ self.video_writer = None
    /\ self.kind = "depthai" => self.cap = None /\ self.device = None
    /\ \E enum \in EnumAnswers, capOk \in Asked(self.source # "None") :
          LET r == Sensor_initialize(Ctx, enum, capOk)
          IN  Fits(r) /\ Commit("initialize", r)
    /\ UNCHANGED <<args, now, rec>>

\* sensor.start()
Start ==
    /\ Idle
    /\ \E devOk \in DevAnswers, queueOk \in DevAnswers, capOk \in CapAnswers,
          sinkOk \in BOOLEAN :
          LET r == Sensor_start(Ctx, now, devOk, queueOk, capOk, sinkOk)
          IN  Fits(r) /\ Commit("start", r)
    /\ UNCHANGED <<args, now, rec>>

\* sensor.read()
Read ==
    /\ Idle
    /\ \E pkt \in PktAnswers, ok \in ReadAnswers, ok2 \in {FALSE},
          sz \in SizeAnswers :
          Commit("read", Sensor_read(Ctx, <<now, TicksPerSecond>>, pkt, ok, ok2,
                                     sz[1], sz[2]))
    /\ UNCHANGED <<args, now, rec>>

\* sensor.stop()
Stop ==
    /\ Idle
    /\ Commit("stop", Sensor_stop(Ctx))
    /\ UNCHANGED <<args, now, rec>>

\* sensor.cleanup()
Cleanup ==
    /\ Idle
    /\ \E fail \in Failures :
          Commit("cleanup", Sensor_cleanup(Ctx, fail))
    /\ UNCHANGED <<args, now, rec>>

\* The wall clock advances.
Tick ==
    /\ now < MaxTime
    /\ now' = now + 1
    /\ UNCHANGED <<args, self, heap, leaks, call, initialized, stopped, rec>>

\* --------------------------------------------------- NeuronavClient.record
\* record(sensor, duration_seconds) one step at a time: pc is "start" before
\* sensor.start(), "read" before sensor.read(), "check" before the duration
\* test, "stop" and "cleanup" in the finally block, "done" when it has left.

Durations == {NoDuration, 0, 1}

\* client.record(sensor, duration)
RecordEnter ==
    /\ Idle
    /\ \E d \in Durations : rec' = [RecIdle EXCEPT !.pc = "start", !.duration = d]
    /\ UNCHANGED <<args, self, heap, leaks, call, now, initialized, stopped>>

\* Mutant: an exception of sensor.start() leaves record() at once, as if
\* there were no finally block.
RecordStart_no_finally ==
    /\ rec.pc = "start"
    /\ \E devOk \in DevAnswers, queueOk \in DevAnswers, capOk \in CapAnswers,
          sinkOk \in BOOLEAN :
          LET r == Sensor_start(Ctx, now, devOk, queueOk, capOk, sinkOk)
          IN  /\ Fits(r)
              /\ Commit("start", r)
              /\ rec' = IF r.exc # NoException
                        THEN [rec EXCEPT !.pc = "done", !.exc = r.exc,
                                         !.exit = "start_error"]
                        ELSE [rec EXCEPT !.pc = "read", !.start = now]
    /\ UNCHANGED <<args, now>>

\* sensor.start(); start = time.time()
RecordStart ==
    /\ rec.pc = "start"
    /\ \E devOk \in DevAnswers, queueOk \in DevAnswers, capOk \in CapAnswers,
          sinkOk \in BOOLEAN :
          LET r == Sensor_start(Ctx, now, devOk, queueOk, capOk, sinkOk)
          IN  /\ Fits(r)
              /\ Commit("start", r)
              /\ rec' = IF r.exc # NoException
                        THEN [rec EXCEPT !.pc = "stop", !.exc = r.exc,
                                         !.exit = "start_error"]
                        ELSE [rec EXCEPT !.pc = "read", !.start = now]
    /\ UNCHANGED <<args, now>>

\* sensor.read()
RecordRead ==
    /\ rec.pc = "read"
    /\ \E pkt \in PktAnswers, ok \in ReadAnswers, ok2 \in {FALSE},
          sz \in SizeAnswers :
          LET r == Sensor_read(Ctx, <<now, TicksPerSecond>>, pkt, ok, ok2,
                               sz[1], sz[2])
          IN  /\ Commit("read", r)
              /\ rec' = IF r.exc # NoException
                        THEN [rec EXCEPT !.pc = "stop", !.exc = r.exc,
                                         !.exit = "read_error"]
                        ELSE [rec EXCEPT !.pc = "check"]
    /\ UNCHANGED <<args, now>>

\* Mutant: the duration test never succeeds.
Expired_never(r, t) == FALSE

\* if duration_seconds is not None and (time.time() - start) >= duration_seconds
Expired(r, t) ==
    r.duration # NoDuration /\ (t - r.start) >= r.duration * TicksPerSecond

RecordCheck ==
    /\ rec.pc = "check"
    /\ rec' = IF Expired(rec, now)
              THEN [rec EXCEPT !.pc = "stop", !.exit = "duration"]
              ELSE [rec EXCEPT !.pc = "read"]
    /\ UNCHANGED <<args, self, heap, leaks, call, now, initialized, stopped>>

\* except KeyboardInterrupt: the interrupt is caught and not re-raised
RecordInterrupt ==
    /\ rec.pc \in {"start", "read", "check"}
    /\ rec' = [rec EXCEPT !.pc = "stop", !.exit = "interrupt"]
    /\ UNCHANGED <<args, self, heap, leaks, call, now, initialized, stopped>>

\* finally: sensor.stop()
RecordStop ==
    /\ rec.pc = "stop"
    /\ Commit("stop", Sensor_stop(Ctx))
    /\ rec' = [rec EXCEPT !.pc = "cleanup", !.calls = Append(@, "stop")]
    /\ UNCHANGED <<args, now>>

\* finally: sensor.cleanup(); an exception it raises leaves record()
RecordCleanup ==
    /\ rec.pc = "cleanup"
    /\ \E fail \in Failures :
          LET r == Sensor_cleanup(Ctx, fail)
          IN  /\ Commit("cleanup", r)
              /\ rec' = [rec EXCEPT !.pc = "done",
                                    !.calls = Append(@, "cleanup"),
                                    !.exc = IF r.exc # NoException THEN r.exc ELSE @]
    /\ UNCHANGED <<args, now>>

\* record() has returned or raised; the caller goes on.
RecordReturn ==
    /\ rec.pc = "done"
    /\ rec' = RecIdle
    /\ UNCHANGED <<args, self, heap, leaks, call, now, initialized, stopped>>

\* A caller that drives the sensor's lifecycle methods itself.
Next ==
    \/ Construct \/ Factory \/ ConstructMock
    \/ Initialize \/ Start \/ Read \/ Stop \/ Cleanup
    \/ Tick

Spec == Init /\ [][Next]_vars

\* A caller that builds a sensor and hands it to NeuronavClient.record().
NextRecord ==
    \/ Construct \/ Factory \/ ConstructMock
    \/ Initialize
    \/ Tick
    \/ RecordEnter \/ RecordStart \/ RecordRead \/ RecordCheck
    \/ RecordInterrupt \/ RecordStop \/ RecordCleanup \/ RecordReturn

SpecRecord == Init /\ [][NextRecord]_vars

\* record() does not stay for ever before the call at position p: the call
\* is made and returns.  The step at p is enabled whenever record() is at p,
\* so this is weak fairness of that step.
Proceeds(p) == []<>(rec.pc # p)

\* record() under the scheduling the code has: it is one thread, so a call it
\* makes returns and its next statement runs, and the wall clock advances.
\* An interrupt may or may not arrive.
SpecRecordFair ==
    /\ SpecRecord
    /\ WF_vars(Tick)
    /\ WF_vars(RecordCheck)
    /\ Proceeds("read") /\ Proceeds("stop") /\ Proceeds("cleanup")

\* ----------------------------------------------------- the synthetic frame
\* The synthetic frame as a function of the time and of the configured
\* width: a sensor in synthetic mode of some width is recording, the clock
\* advances by thirds of a second, and read() is called at any time.

Widths == {1, 7, 40, 41, 100, DefaultWidth}

\* DepthAISensor(model, mock_source="synthetic", width=W) without depthai,
\* then initialize() and start() at time 0.
SyntheticSession(W) ==
    LET c0 == [self |-> NoObject, heap |-> <<>>, ev |-> <<>>,
               exc |-> NoException, ret |-> "None", inited |-> FALSE,
               stopped |-> FALSE]
        c1 == DepthAISensor_init(c0, CHOOSE m \in ModelNames : TRUE, TRUE,
                                 [type |-> "str", val |-> "synthetic"],
                                 TRUE, TRUE, FALSE)
        c2 == DepthAISensor_initialize([c1 EXCEPT !.self.width = W], "devices")
    IN  DepthAISensor_start(c2, 0, TRUE, TRUE, TRUE, TRUE)

InitSynthetic ==
    \E W \in Widths :
        LET c == SyntheticSession(W)
        IN  /\ args = [allow |-> TRUE, src |-> c.self.mock_source,
                       depthai |-> FALSE, factory |-> FALSE, given |-> TRUE]
            /\ self = c.self
            /\ heap = c.heap
            /\ leaks = 0
            /\ call = [op |-> "start", ev |-> c.ev, exc |-> c.exc, ret |-> c.ret]
            /\ now = 0
            /\ initialized = c.inited
            /\ stopped = c.stopped
            /\ rec = RecIdle

\* sensor.read() at the time the clock shows
SyntheticRead ==
    /\ Commit("read", DepthAISensor_read(Ctx, <<now, FrameTicksPerSecond>>,
                                         "none", TRUE, DefaultWidth, DefaultHeight))
    /\ UNCHANGED <<args, now, rec>>

\* The wall clock advances by one tick.
SyntheticTick ==
    /\ now < MaxFrameTicks
    /\ now' = now + 1
    /\ UNCHANGED <<args, self, heap, leaks, call, initialized, stopped, rec>>

NextSynthetic == SyntheticRead \/ SyntheticTick

SpecSynthetic == InitSynthetic /\ [][NextSynthetic]_vars

\* ------------------------------------------------------------------ claims

\* A step that is a call of method op on the sensor.
Calls(op) ==
    /\ call'.op = op
    /\ <<self, heap, leaks, call, initialized, stopped>>'
         # <<self, heap, leaks, call, initialized, stopped>>

\* The positions of the events named e among the events ev of a call.
At(ev, e) == { i \in 1..Len(ev) : ev[i].e = e }

\* The fallback rule as the specification words it.
RuleMode(src) ==
    CASE src.type = "int" -> "webcam"
      [] src.type = "str" /\ src.val = "synthetic" -> "synthetic"
      [] OTHER -> "unspecified"

NoHandleHeld(obj) ==
    obj.video_writer = None /\ obj.cap = None /\ obj.device = None

\* C1: record() calls sensor.stop() and then sensor.cleanup(), once each and
\* in that order, however it leaves the try block: until then it has called
\* neither, and when it is done the sensor is stopped and cleanup() was the
\* last call on it.
C1_StopThenCleanupOnce ==
    /\ rec.pc \in {"start", "read", "check", "stop"} => rec.calls = <<>>
    /\ rec.pc = "cleanup" => rec.calls = <<"stop">> /\ call.op = "stop"
    /\ rec.pc = "done" =>
          /\ rec.calls = <<"stop", "cleanup">>
          /\ call.op = "cleanup"
          /\ ~self.running

\* C1 witness: record() is done after sensor.read() raised.
C1_Witness ==
    rec.pc = "done" /\ rec.exit = "read_error" /\ rec.calls = <<"stop", "cleanup">>

\* C2 (as claimed): cleanup() never raises and leaves no handle held, also
\* when one release step throws.
C2_CleanupUnconditional ==
    call.op = "cleanup" => call.exc = NoException /\ NoHandleHeld(self)

\* C3 (as claimed): on an initialized sensor, a cleanup() right after a
\* cleanup() releases nothing (so no handle is released a second time) and
\* leaves the state unchanged.
C3_CleanupIdempotent ==
    [][ (initialized /\ call.op = "cleanup" /\ Calls("cleanup")) =>
            /\ call'.ev = <<>>
            /\ self' = self /\ heap' = heap /\ leaks' = leaks ]_vars

\* C4: without hardware support (fallback allowed) the mode is webcam for an
\* integer selector and synthetic for "synthetic", after construction and
\* from then on; and an initialize() that finds no device, or whose device
\* enumeration throws, selects the mode by the same rule when fallback is
\* allowed.
C4_FallbackSelection ==
    /\ [](self.kind = "depthai" /\ ~self.has_depthai =>
              self.mode = RuleMode(self.mock_source))
    /\ [][ ( /\ (Calls("initialize") \/ Calls("GetDepthai"))
             /\ self'.kind = "depthai"
             /\ self'.allow_mock_on_no_device
             /\ \E i \in At(call'.ev, "getAllAvailableDevices") :
                    call'.ev[i].tag \in {"empty", "throws"} )
           => ( /\ call'.exc = NoException
                /\ self'.mode = RuleMode(self'.mock_source) ) ]_vars

\* C4 witness: an initialize() that found no device fell back to synthetic.
C4_Witness ==
    /\ call.op = "initialize" /\ self.has_depthai
    /\ \E i \in At(call.ev, "getAllAvailableDevices") : call.ev[i].tag = "empty"
    /\ self.mode = "synthetic"

\* C5: a start() in hardware mode tries to open the device exactly once, and
\* first.  When that fails and fallback is allowed, the mode becomes the one
\* the selector rule gives, every sink is opened after that and for that
\* mode, and a start() that returns has opened one and is active.  When it
\* fails and fallback is not allowed, start() raises, opens no sink, and
\* leaves the mode and the running flag as they were.
C5_HardwareStart ==
    [][ (Calls("start") /\ self.kind = "depthai" /\ self.mode = "depthai") =>
          LET ev == call'.ev
              failed == ev[1].tag = "failed"
          IN  /\ At(ev, "device_open") = {1}
              /\ (failed /\ self.allow_mock_on_no_device) =>
                    /\ self'.mode = RuleMode(self.mock_source)
                    /\ \A i \in At(ev, "sink_open") : ev[i].tag = self'.mode
                    /\ call'.exc = NoException =>
                          /\ Cardinality(At(ev, "sink_open")) = 1
                          /\ self'.running
                    /\ self'.mode = "webcam" => At(ev, "cap_open") = {2}
              /\ (failed /\ ~self.allow_mock_on_no_device) =>
                    /\ call'.exc = "DeviceError"
                    /\ At(ev, "sink_open") = {}
                    /\ self'.mode = "depthai"
                    /\ self'.running = self.running ]_vars

\* C5 witness: a start() whose device open failed went on as a webcam.
C5_Witness ==
    /\ call.op = "start" /\ call.exc = NoException
    /\ At(call.ev, "device_open") = {1} /\ call.ev[1].tag = "failed"
    /\ self.mode = "webcam" /\ self.running

\* C6: constructing a DepthAISensor (directly or through GetDepthai) without
\* hardware support and with fallback disabled raises (the code's
\* RuntimeError is the specification's ConfigurationError) and yields no
\* sensor: nothing is initialized, active or open, and no sink was opened.
C6_NoHardwareNoFallback ==
    (args.given /\ ~args.depthai /\ ~args.allow) =>
        /\ call.op \in {"__init__", "GetDepthai"}
        /\ call.exc = "RuntimeError"
        /\ At(call.ev, "sink_open") = {}
        /\ self = NoObject
        /\ heap = <<>> /\ leaks = 0
        /\ ~initialized

\* C6 witness: GetDepthai was called so and raised.
C6_Witness ==
    args.given /\ args.factory /\ ~args.depthai /\ ~args.allow
    /\ call.exc = "RuntimeError"

\* C7: a read() after stop(), with no start() since, returns False, makes no
\* external call (no frame is written, no capture handle is touched) and
\* changes nothing, for DepthAISensor in every mode and for MockSensor.
C7_ReadAfterStop ==
    [][ (Calls("read") /\ stopped) =>
            /\ call'.ret = "False"
            /\ call'.exc = NoException
            /\ call'.ev = <<>>
            /\ self' = self /\ heap' = heap ]_vars

\* C7 witness: such a read() on a sensor that still holds its sink.
C7_Witness ==
    call.op = "read" /\ stopped /\ self.video_writer # None
    /\ heap[self.video_writer].open /\ call.ret = "False"

\* C8 (as claimed): a DepthAISensor is active only if initialize() was called
\* on it.
C8_ActiveOnlyInitialized ==
    (self.kind = "depthai" /\ self.running) => initialized

\* C8 (amended): a DepthAISensor that GetDepthai returned is active only if
\* initialize() was called on it.
C8_FactoryActiveOnlyInitialized ==
    (self.kind = "depthai" /\ args.factory /\ self.running) => initialized

\* C8 witness: a sensor from GetDepthai is active.
C8_Witness == self.kind = "depthai" /\ args.factory /\ self.running

\* The sensor holds exactly the handles that its last call opened.
OpenedByLastCall ==
    \A h \in 1..Len(heap) :
        \E i \in At(call.ev, "sink_open") \cup At(call.ev, "cap_open")
                   \cup At(call.ev, "device_open") : call.ev[i].h = h

\* C9 (as claimed): when start() on a sensor that held nothing has returned,
\* in any mode, a cleanup() right after it does not raise and leaves no
\* handle held or open.
C9_StartThenCleanup ==
    [][ ( /\ call.op = "start" /\ call.exc = NoException /\ OpenedByLastCall
          /\ Calls("cleanup") ) =>
            /\ call'.exc = NoException
            /\ NoHandleHeld(self')
            /\ \A h \in 1..Len(heap') : ~heap'[h].open ]_vars

\* C10 (as claimed, for two sessions in a row on one sensor): a start() that
\* opens a sink opens it at another path than the session before it.
C10_NoSharedOutputFile ==
    [][ (Calls("start") /\ call'.exc = NoException) =>
            self'.current_filepath # self.current_filepath ]_vars

\* C11 (as claimed): when record() on a DepthAISensor leaves after an interrupt
\* in sensor.start() or in the read loop, it returns normally (no exception
\* leaves it); when it leaves after another exception of start() or read(),
\* that exception is the one that reaches the caller; both after stop() and
\* cleanup().
C11_InterruptCaughtErrorsPropagate ==
    [][ (self.kind = "depthai" /\ rec.pc = "cleanup" /\ rec'.pc = "done") =>
            /\ rec'.calls = <<"stop", "cleanup">>
            /\ rec.exit = "interrupt" => rec'.exc = NoException
            /\ rec.exit \in {"start_error", "read_error"} =>
                  rec.exc # NoException /\ rec'.exc = rec.exc ]_vars

\* The handles cleanup() can release: those in the three handle fields.
Releasable(obj) == {obj.video_writer, obj.cap, obj.device} \ {None}

\* The release events of a call.
Releases(ev) ==
    At(ev, "sink_release") \cup At(ev, "cap_release") \cup At(ev, "device_close")

\* C12: a DepthAISensor holds at most one sink and one capture handle, each in
\* its own field, and at most one device it can still close.  A start() never
\* releases anything; the sink, capture handle or device it opens takes the
\* place of the one held before, so an open sink or capture handle that was
\* held when start() opened another is leaked: no cleanup() can reach it.
C12_OneSessionSecondStartLeaks ==
    /\ [](self.kind = "depthai" =>
            /\ \A h \in 1..Len(heap) :
                  /\ heap[h].kind = "sink" => h = self.video_writer
                  /\ heap[h].kind = "cap" => h = self.cap
                  /\ heap[h].kind = "device" => h \in {self.device, self.rgb_queue}
            /\ \A k \in {"sink", "cap", "device"} :
                  Cardinality({h \in Releasable(self) : heap[h].kind = k}) <= 1)
    /\ [][ (Calls("start") /\ self.kind = "depthai") =>
            LET ev == call'.ev
                held(f) == f # None /\ heap[f].open
                lost(f, e) == IF held(f) /\ At(ev, e) # {} THEN 1 ELSE 0
            IN  /\ Releases(ev) = {}
                /\ \A i \in At(ev, "sink_open") : self'.video_writer = ev[i].h
                /\ \A i \in At(ev, "cap_open") : self'.cap = ev[i].h
                /\ \A i \in At(ev, "device_open") :
                      ev[i].tag = "ok" => self'.device = ev[i].h
                /\ leaks' >= leaks + lost(self.video_writer, "sink_open")
                                   + lost(self.cap, "cap_open") ]_vars

\* C12 witness: a start() on a sensor that held an open sink has returned, and
\* that sink is leaked.
C12_Witness ==
    /\ self.kind = "depthai" /\ call.op = "start" /\ call.exc = NoException
    /\ leaks >= 1 /\ self.running
    /\ self.video_writer # None /\ heap[self.video_writer].open

\* C13: a record() with a duration that is in its read loop (the deadline
\* being a time the modelled clock reaches) eventually finishes, whatever
\* read() returns; and a record() without a duration leaves its loop only by
\* an interrupt or an exception of start()/read().
C13_RecordTerminates ==
    /\ ( /\ rec.pc \in {"read", "check"}
         /\ rec.duration # NoDuration
         /\ rec.start + rec.duration * TicksPerSecond <= MaxTime )
          ~> (rec.pc = "done")
    /\ []( (rec.pc \in {"stop", "cleanup", "done"} /\ rec.duration = NoDuration)
              => rec.exit \in {"interrupt", "start_error", "read_error"} )

\* C13 witness: a record() of one second is done because the second passed.
C13_Witness ==
    /\ rec.pc = "done" /\ rec.exit = "duration" /\ rec.duration = 1
    /\ now - rec.start >= TicksPerSecond

\* The place of a release step in the order the specification gives.
Rank(e) ==
    CASE e = "sink_release" -> 1
      [] e = "cap_release" -> 2
      [] e = "device_close" -> 3
      [] OTHER -> 0

\* C14: the external calls of a DepthAISensor.cleanup() are release steps
\* only, at most one of each kind, in the order sink, webcam handle, device;
\* it starts with the first handle it holds in that order, and a cleanup()
\* that returns has made one release step for each handle it held.
C14_CleanupOrder ==
    [][ (Calls("cleanup") /\ self.kind = "depthai") =>
          LET ev == call'.ev
          IN  /\ \A i \in 1..Len(ev) : Rank(ev[i].e) > 0
              /\ \A i, j \in 1..Len(ev) :
                    i < j => Rank(ev[i].e) < Rank(ev[j].e)
              /\ self.video_writer # None => ev[1].e = "sink_release"
              /\ (self.video_writer = None /\ self.cap # None) =>
                    ev[1].e = "cap_release"
              /\ call'.exc = NoException =>
                    Len(ev) = Cardinality(Releasable(self)) ]_vars

\* C14 witness: a cleanup() that held all three has released sink, webcam
\* handle and device.
C14_Witness ==
    /\ self.kind = "depthai" /\ call.op = "cleanup" /\ Len(call.ev) = 3
    /\ call.ev[1].e = "sink_release" /\ call.ev[3].e = "device_close"

Fallbacks == {"webcam", "synthetic"}

\* C16 (as claimed): the mode of a DepthAISensor changes only in initialize()
\* and start(), start() only takes it from hardware to webcam or synthetic,
\* and a mode that is webcam or synthetic never becomes hardware again.
C16_ModeOnlyDowngraded ==
    [][ (self.kind = "depthai" /\ self'.kind = "depthai") =>
          /\ self'.mode # self.mode => Calls("initialize") \/ Calls("start")
          /\ (Calls("start") /\ self'.mode # self.mode) =>
                self.mode = "depthai" /\ self'.mode \in Fallbacks
          /\ self.mode \in Fallbacks => self'.mode # "depthai" ]_vars

\* C16 (amended): the mode of a DepthAISensor changes only in initialize()
\* and start(); start() only takes it from hardware to the mode the selector
\* rule gives; and a mode that is webcam or synthetic becomes hardware again
\* only by an initialize() whose device enumeration found a device.
C16_ModeChangesOnlyInInitializeAndStart ==
    [][ (self.kind = "depthai" /\ self'.kind = "depthai") =>
          /\ self'.mode # self.mode => Calls("initialize") \/ Calls("start")
          /\ (Calls("start") /\ self'.mode # self.mode) =>
                /\ self.mode = "depthai"
                /\ self'.mode = RuleMode(self.mock_source)
          /\ (self.mode \in Fallbacks /\ self'.mode = "depthai") =>
                /\ Calls("initialize") /\ self.has_depthai
                /\ \E i \in At(call'.ev, "getAllAvailableDevices") :
                      call'.ev[i].tag = "devices" ]_vars

\* C16 witness: a sensor whose last session recorded in a fallback mode is in
\* hardware mode after an initialize().
C16_Witness ==
    /\ self.kind = "depthai" /\ call.op = "initialize"
    /\ self.current_filepath.mode \in Fallbacks /\ self.mode = "depthai"

\* The bar a read() drew, as the claim's formula gives its start: the whole
\* hundredths of a second that have passed, modulo the width.
ClaimedStart(t, W) == ((100 * t[1]) \div t[2]) % W

\* C17 (as claimed): a synthetic read() at time t draws a bar that starts at
\* column floor(100*t) mod W and is 40 columns wide.
C17_BarFortyWide ==
    [][ Calls("read") =>
          \E i \in At(call'.ev, "draw_bar") :
              /\ call'.ev[i].x = ClaimedStart(<<now, FrameTicksPerSecond>>, self.width)
              /\ call'.ev[i].cols = BarWidth ]_vars

\* C17 (amended): a synthetic read() at time t draws one bar, which starts at
\* column floor(100*t) mod W and covers the 40 columns from there, or the
\* columns up to the last one of the frame where fewer than 40 are left.
C17_BarPosition ==
    [][ Calls("read") =>
          /\ Cardinality(At(call'.ev, "draw_bar")) = 1
          /\ \A i \in At(call'.ev, "draw_bar") :
                LET x == ClaimedStart(<<now, FrameTicksPerSecond>>, self.width)
                    left == self.width - x
                IN  /\ call'.ev[i].x = x
                    /\ call'.ev[i].cols = IF left < 40 THEN left ELSE 40
                    /\ i + 1 \in At(call'.ev, "sink_write") ]_vars

\* C17 witness: a read() a third of a second after the start drew the bar of
\* a frame 100 wide from column 33 on, 40 columns wide.
C17_Witness ==
    /\ call.op = "read" /\ self.width = 100
    /\ \E i \in At(call.ev, "draw_bar") :
          call.ev[i].x = 33 /\ call.ev[i].cols = 40

\* C18 (as claimed): an active DepthAISensor holds an open sink and the
\* capture source of its mode (hardware: an open device and its queue;
\* webcam: an open capture handle), and no read() fails for want of one.
C18_ActiveHoldsSinkAndSource ==
    /\ (self.kind = "depthai" /\ self.running) =>
          /\ self.video_writer # None /\ heap[self.video_writer].open
          /\ self.mode = "depthai" =>
                /\ self.device # None /\ heap[self.device].open
                /\ self.rgb_queue = self.device
          /\ self.mode = "webcam" =>
                self.cap # None /\ heap[self.cap].open
    /\ (self.kind = "depthai" /\ call.op = "read") =>
          call.exc # "AttributeError"

\* C19 (as claimed): a start() that raises on an inactive DepthAISensor
\* leaves it inactive and still referring, in a field cleanup() releases, to
\* every handle that start() made; and the cleanup() that follows does not
\* raise, leaves none of them held and none of them open.
C19_FailedStartThenCleanup ==
    /\ [][ (Calls("start") /\ self.kind = "depthai" /\ ~self.running
                /\ call'.exc # NoException) =>
              /\ ~self'.running
              /\ \A i \in At(call'.ev, "device_open") \cup At(call'.ev, "cap_open")
                         \cup At(call'.ev, "sink_open") :
                    call'.ev[i].tag = "failed" \/ call'.ev[i].h \in Releasable(self') ]_vars
    /\ [][ (self.kind = "depthai" /\ call.op = "start" /\ call.exc # NoException
                /\ ~self.running /\ Calls("cleanup")) =>
              /\ call'.exc = NoException
              /\ NoHandleHeld(self')
              /\ leaks' = leaks ]_vars

====
